---- MODULE Spec2Model ----
(***************************************************************************)
(* The segmented tween animation engine of freya's hooks crate             *)
(* (crates/hooks/src/use_animate.rs) together with the part of the desktop *)
(* renderer (crates/renderer/src/renderer.rs) that delivers its ticks.     *)
(*                                                                         *)
(* The ticker of a loop and the event loop's queue are kept as flags: a     *)
(* second tick or RequestRerender message waiting behind the first adds    *)
(* nothing, since handling either is idempotent and the window may be      *)
(* asked to redraw again at any time (Resized).                            *)
(*                                                                         *)
(* Times are in milliseconds.  Output values (f32) are kept as integers in *)
(* units of 1/60: every duration used below divides 60, so the linear      *)
(* easing  c * t / d + b  is exact.                                        *)
(***************************************************************************)
EXTENDS Integers, Sequences, FiniteSets, TLC

\* ------------------------------------------------------------------ bounds
\* The monotonic clock stops advancing at MaxTime.
MaxTime == 3
\* run() spawns at most MaxTasks tick loops in one behaviour.
MaxTasks == 2
\* A timeline is built of at most MaxSegments segments.
MaxSegments == 3

\* ------------------------------------------------------------- Option<T>
None == <<>>
Some(x) == <<x>>

\* A u32 result: below zero the arithmetic has overflowed.  The upper limit,
\* 2^32 ms, lies far beyond MaxTime and every duration used here.
IsU32(x) == x >= 0

\* ---------------------------------------------------------------- Output
F32(n) == <<"f32", n>>
NaN == <<"NaN", 0>>

\* easer's Linear: c * t / d + b (f32; 0/0 is NaN, nothing panics)
Linear(t, b, c, d) == IF d = 0 THEN NaN ELSE F32(b + ((c * t) \div d))

\* the closure returning its first argument, the time
ConstantFn_ReturnsTime(t, b, c, d) == F32(t)

\* the closure of add_constant_segment: |_time, start, _end, _duration| start
ConstantFn(t, b, c, d) == F32(b)

Apply(function, t, b, c, d) ==
    IF function = "constant" THEN ConstantFn(t, b, c, d) ELSE Linear(t, b, c, d)

\* ease handing the target to the function in place of the change to - self
ease_AbsoluteTarget(self, to, time, duration, function) ==
    Apply(function, time, self, to, duration)

\* impl Easable for f32
ease(self, to, time, duration, function) ==
    Apply(function, time, self, to - self, duration)

\* ---------------------------------------------------- SegmentCompositor
Segment(start, end, duration, function) ==
    [start |-> start, end |-> end, duration |-> duration, function |-> function]

SegmentCompositorNew(start, end, duration, function) ==
    [segments |-> <<Segment(start, end, duration, function)>>,
     total_duration |-> duration]

add_segment(self, start, end, duration, function) ==
    [segments |-> Append(self.segments, Segment(start, end, duration, function)),
     total_duration |-> self.total_duration + duration]

\* add_constant_segment leaving total_duration as it was
add_constant_segment_KeepsTotal(self, v, duration) ==
    [segments |-> Append(self.segments, Segment(v, v, duration, "constant")),
     total_duration |-> self.total_duration]

add_constant_segment(self, v, duration) ==
    [segments |-> Append(self.segments, Segment(v, v, duration, "constant")),
     total_duration |-> self.total_duration + duration]

\* duration() one past the timeline's end
duration_OffByOne(self) == self.total_duration + 1

duration(self) == self.total_duration

RECURSIVE CalcFrom(_, _, _, _)
\* the for loop passing over segments of duration 0
CalcFrom_SkipsEmpty(segs, i, accumulated_time, index) ==
    IF i > Len(segs) THEN None
    ELSE IF /\ segs[i].duration > 0
            /\ index >= accumulated_time
            /\ index <= accumulated_time + segs[i].duration
         THEN Some(ease(segs[i].start, segs[i].end, index - accumulated_time,
                        segs[i].duration, segs[i].function))
         ELSE CalcFrom(segs, i + 1, accumulated_time + segs[i].duration, index)

\* the for loop easing at the index itself, not at index - accumulated_time
CalcFrom_AbsoluteTime(segs, i, accumulated_time, index) ==
    IF i > Len(segs) THEN None
    ELSE IF index >= accumulated_time /\ index <= accumulated_time + segs[i].duration
         THEN Some(ease(segs[i].start, segs[i].end, index,
                        segs[i].duration, segs[i].function))
         ELSE CalcFrom(segs, i + 1, accumulated_time + segs[i].duration, index)

\* the for loop of calc: res stays None when no segment's window holds index
CalcFrom(segs, i, accumulated_time, index) ==
    IF i > Len(segs) THEN None
    ELSE IF index >= accumulated_time /\ index <= accumulated_time + segs[i].duration
         THEN Some(ease(segs[i].start, segs[i].end, index - accumulated_time,
                        segs[i].duration, segs[i].function))
         ELSE CalcFrom(segs, i + 1, accumulated_time + segs[i].duration, index)

RECURSIVE ValueFrom(_, _, _, _)
\* the for loop of value in use_animation.rs: index > accumulated_time
ValueFrom(segs, i, accumulated_time, index) ==
    IF i > Len(segs) THEN None
    ELSE IF index > accumulated_time /\ index <= accumulated_time + segs[i].duration
         THEN Some(ease(segs[i].start, segs[i].end, index - accumulated_time,
                        segs[i].duration, segs[i].function))
         ELSE ValueFrom(segs, i + 1, accumulated_time + segs[i].duration, index)

\* SegmentCompositor::value of use_animation.rs: Some(output), or None where
\* res.expect("to be filled in") panics
value_at(self, index) == ValueFrom(self.segments, 1, 0, index)

\* calc clamping the index to the timeline's end
calc_Clamped(self, index) ==
    CalcFrom(self.segments, 1, 0,
             IF index > self.total_duration THEN self.total_duration ELSE index)

\* calc: Some(output), or None where res.expect("to be filled in") panics
calc(self, index) == CalcFrom(self.segments, 1, 0, index)

\* The timelines the descriptor closure may build.
Timelines ==
    { SegmentCompositorNew(0, 60, 2, "linear"),
      add_constant_segment(SegmentCompositorNew(60, 0, 1, "linear"), 0, 1),
      add_segment(SegmentCompositorNew(0, 30, 1, "linear"), 30, 60, 1, "linear") }

Direction == {"Forward", "Backward"}

Tasks == 1..MaxTasks

\* ------------------------------------------------------------------ state
VARIABLES
    function_and_ctx,  \* Memo<(Animated, Context)>: [sc, ctx]
    is_running,        \* Signal<bool>
    direction,         \* Signal<Direction>
    value,             \* Signal<O>
    task,              \* Signal<Option<Task>>
    loops,             \* the futures spawned by run(), by task id
    ticks,             \* by task id: its Ticker holds a tick not yet consumed
    rerender_msgs,     \* an EventMessage::RequestRerender is in the event loop
    redraw,            \* window.request_redraw() asked, RedrawRequested due
    now,               \* Instant::now(), ms
    renderer,          \* DesktopRenderer, its window and the platform state
    ev                 \* history: the last scheduler step and what it did

vars == <<function_and_ctx, is_running, direction, value, task, loops, ticks,
          rerender_msgs, redraw, now, renderer, ev>>

sc == function_and_ctx.sc

\* A task never spawned; a finished task keeps only its state.
NoLoop ==
    [st |-> "none", anchor |-> 0, offset |-> 0, last_direction |-> "Forward",
     run_direction |-> "Forward", woke |-> 0]

Live(t) == loops[t].st \in {"spawned", "waiting"}
LiveLoops == {t \in Tasks : Live(t)}
Spawned == {t \in Tasks : loops[t].st # "none"}
Crashed == \E t \in Tasks : loops[t].st = "panicked"

NoEv ==
    [kind |-> "init", task |-> 0, dir |-> "Forward", idle |-> FALSE, raw |-> 0,
     elapsed |-> 0, before |-> NaN, reversal |-> FALSE, calcs |-> {},
     published |-> FALSE, panic |-> "no", sent |-> <<>>]

\* A step of the environment: the scheduler did nothing.
EnvEv == [NoEv EXCEPT !.kind = "env"]

\* DesktopRenderer with its window created: window is window.scale_factor(),
\* state_scale_factor the scale_factor of the platform state, notified
\* whether the last send_if_modified woke the state's watchers, last_dropped
\* (history) the path of the latest DroppedFile.  custom_scale_factor stays
\* 0 as constructed: the zoom shortcuts are left out.
RendererState(w, s) ==
    [window |-> w, custom_scale_factor |-> 0, state_scale_factor |-> s,
     notified |-> FALSE, cursor_pos |-> 0, dropped_file_path |-> None,
     last_dropped |-> None]

\* fn scale_factor
scale_factor == renderer.window + renderer.custom_scale_factor

\* ------------------------------------------------------- use_animation
\* the initial time with the two match arms exchanged
InitialTime_Swapped(dir, self) == IF dir = "Forward" THEN duration(self) ELSE 0

\* let time = match *direction.peek() { Forward => 0, Backward => duration() }
InitialTime(dir, self) == IF dir = "Forward" THEN 0 ELSE duration(self)

Init ==
    /\ function_and_ctx \in [sc : Timelines, ctx : [auto_start : BOOLEAN]]
    /\ is_running = function_and_ctx.ctx.auto_start
    /\ direction = "Forward"
    /\ value = calc(sc, InitialTime(direction, sc))[1]
    /\ task = None
    /\ loops = [t \in Tasks |-> NoLoop]
    /\ ticks = [t \in Tasks |-> FALSE]
    /\ rerender_msgs = FALSE
    /\ redraw = FALSE
    /\ now = 0
    /\ renderer = RendererState(1, 1)
    /\ ev = [NoEv EXCEPT !.calcs = {InitialTime(direction, sc)}]

\* ------------------------------------------------------ UseAnimator::run
\* run() storing true in is_running when it spawns
Run_SetsRunning(d) ==
    /\ ~Crashed
    /\ ~is_running
    /\ Cardinality(Spawned) < MaxTasks
    /\ direction' = d
    /\ is_running' = TRUE
    /\ LET id == Cardinality(Spawned) + 1 IN
       /\ loops' = [loops EXCEPT ![id] =
                       [NoLoop EXCEPT !.st = "spawned", !.run_direction = d]]
       /\ ticks' = [ticks EXCEPT ![id] = FALSE]
       /\ task' = Some(id)
       /\ ev' = [NoEv EXCEPT !.kind = "run", !.task = id, !.dir = d,
                             !.idle = TRUE]
    /\ UNCHANGED <<renderer, function_and_ctx, value, rerender_msgs, redraw, now>>

\* The body of run(): the direction is recorded; when the flag is false a
\* ticker is made and the future is spawned and stored, nothing is cancelled.
Run(d) ==
    /\ ~Crashed
    /\ is_running \/ Cardinality(Spawned) < MaxTasks
    /\ direction' = d
    /\ IF ~is_running
       THEN LET id == Cardinality(Spawned) + 1 IN
            /\ loops' = [loops EXCEPT ![id] =
                            [NoLoop EXCEPT !.st = "spawned", !.run_direction = d]]
            /\ ticks' = [ticks EXCEPT ![id] = FALSE]
            /\ task' = Some(id)
            /\ ev' = [NoEv EXCEPT !.kind = "run", !.task = id, !.dir = d,
                                  !.idle = TRUE]
       ELSE /\ UNCHANGED <<renderer, loops, ticks, task>>
            /\ ev' = [NoEv EXCEPT !.kind = "run", !.dir = d]
    /\ UNCHANGED <<renderer, function_and_ctx, is_running, value, rerender_msgs, redraw, now>>

\* the head of the future calling platform.request_animation_frame() as well
TaskStart_RequestsFrame(t) ==
    /\ ~Crashed
    /\ loops[t].st = "spawned"
    /\ loops' = [loops EXCEPT ![t] =
            [@ EXCEPT !.st = "waiting",
                      !.anchor = IF direction = "Forward" THEN 0 ELSE duration(sc),
                      !.offset = now,
                      !.last_direction = direction,
                      !.woke = now]]
    /\ ev' = [NoEv EXCEPT !.kind = "start", !.task = t,
                          !.dir = loops[t].run_direction]
    /\ rerender_msgs' = TRUE
    /\ UNCHANGED <<renderer, function_and_ctx, is_running, direction, value, task, ticks,
                   redraw, now>>

\* The head of the spawned future, run at its first poll: anchor, offset and
\* last_direction are read from the signals as they are then.
TaskStart(t) ==
    /\ ~Crashed
    /\ loops[t].st = "spawned"
    /\ loops' = [loops EXCEPT ![t] =
            [@ EXCEPT !.st = "waiting",
                      !.anchor = IF direction = "Forward" THEN 0 ELSE duration(sc),
                      !.offset = now,
                      !.last_direction = direction,
                      !.woke = now]]
    /\ ev' = [NoEv EXCEPT !.kind = "start", !.task = t,
                          !.dir = loops[t].run_direction]
    /\ UNCHANGED <<renderer, function_and_ctx, is_running, direction, value, task, ticks,
                   rerender_msgs, redraw, now>>

\* offset_time with a plain anchor - elapsed in place of checked_sub
offset_time_PlainSub(dir, anchor, offset, clock) ==
    LET elapsed == clock - offset IN
    IF dir = "Forward" THEN Some(anchor + elapsed) ELSE Some(anchor - elapsed)

\* fn offset_time: offset.elapsed() read at clock
offset_time(dir, anchor, offset, clock) ==
    LET elapsed == clock - offset IN
    IF dir = "Forward" THEN Some(anchor + elapsed)
    ELSE IF anchor >= elapsed THEN Some(anchor - elapsed) ELSE None

unwrap_or(opt, default) == IF opt = None THEN default ELSE opt[1]

\* The index sampled when current_offset_time == 0
ZeroBoundaryIndex(self) == duration(self)

\* the end boundary sampled at the start of the timeline
EndBoundaryIndex_Start(self) == 0

\* The index sampled when current_offset_time >= duration
EndBoundaryIndex(self) == duration(self)

\* a pass that goes back to ticker.tick().await where the body breaks
Outcome_KeepsWaiting(st, lp, v, r, calcs, pub, panic, clock) ==
    [st |-> IF st = "done" THEN "waiting" ELSE st, loop |-> lp, value |-> v,
     is_running |-> r, calcs |-> calcs, published |-> pub, panic |-> panic,
     clock |-> clock]

\* What one pass of the loop body leaves behind.
Outcome(st, lp, v, r, calcs, pub, panic, clock) ==
    [st |-> st, loop |-> lp, value |-> v, is_running |-> r, calcs |-> calcs,
     published |-> pub, panic |-> panic, clock |-> clock]

\* The tail of the body, reached when is_running is still true: the
\* re-anchoring on a direction change and the sample.  The clock is read at
\* t2 (offset.elapsed()), t3 (Instant::now()) and t4 (offset.elapsed()).
SampleStep(l, v, r, calcs, t2, t3, t4) ==
    LET changed == l.last_direction # direction
        o2 == offset_time(l.last_direction, l.anchor, l.offset, t2)
    IN
    IF changed /\ o2 = None
    THEN Outcome("panicked", l, v, r, calcs, FALSE, "underflow", t2)
    ELSE IF changed /\ ~IsU32(o2[1])
    THEN Outcome("panicked", l, v, r, calcs, FALSE, "overflow", t2)
    ELSE
    LET l2 == IF changed THEN [l EXCEPT !.anchor = o2[1], !.offset = t3] ELSE l
        o3 == offset_time(direction, l2.anchor, l2.offset, t4)
    IN
    IF o3 = None
    THEN Outcome("panicked", l2, v, r, calcs, FALSE, "underflow", t4)
    ELSE IF ~IsU32(o3[1])
    THEN Outcome("panicked", l2, v, r, calcs, FALSE, "overflow", t4)
    ELSE
    LET s == calc(sc, o3[1]) IN
    IF s = None
    THEN Outcome("panicked", l2, v, r, calcs \cup {o3[1]}, FALSE, "calc", t4)
    ELSE Outcome("waiting", l2, s[1], r, calcs \cup {o3[1]}, TRUE, "no", t4)

\* One pass of the loop body after ticker.tick().await returned; the clock
\* is read at t1 for current_offset_time.
LoopBody(l, t1, t2, t3, t4) ==
    LET o1 == offset_time(direction, l.anchor, l.offset, t1) IN
    IF o1 # None /\ ~IsU32(o1[1])
    THEN Outcome("panicked", l, value, is_running, {}, FALSE, "underflow", t1)
    ELSE
    LET current_offset_time == unwrap_or(o1, 0)
        zero == current_offset_time = 0
        zi == ZeroBoundaryIndex(sc)
        zv == calc(sc, zi)
    IN
    IF zero /\ zv = None
    THEN Outcome("panicked", l, value, is_running, {zi}, FALSE, "calc", t1)
    ELSE
    LET v1 == IF zero THEN zv[1] ELSE value
        r1 == IF zero THEN FALSE ELSE is_running
        c1 == IF zero THEN {zi} ELSE {}
        end == current_offset_time >= duration(sc)
        ei == EndBoundaryIndex(sc)
        evl == calc(sc, ei)
    IN
    IF end /\ evl = None
    THEN Outcome("panicked", l, v1, r1, c1 \cup {ei}, zero, "calc", t1)
    ELSE
    LET v2 == IF end THEN evl[1] ELSE v1
        r2 == IF end THEN FALSE ELSE r1
        c2 == IF end THEN c1 \cup {ei} ELSE c1
    IN
    IF ~r2
    THEN Outcome("done", l, v2, r2, c2, zero \/ end, "no", t1)
    ELSE SampleStep(l, v2, r2, c2, t2, t3, t4)

\* anchor + elapsed or anchor - elapsed as a plain integer (history only);
\* ev.reversal: run() changed the direction after the loop had started.
RawOffset(dir, l, clock) ==
    IF dir = "Forward" THEN l.anchor + (clock - l.offset)
    ELSE l.anchor - (clock - l.offset)

\* ticker.tick().await returns in loop t and the body runs to the next
\* await, to the break or to a panic; d1..d3 is the time that passes between
\* the body's clock reads, up to the last one the pass makes.
LoopTick(t, d1, d2, d3) ==
    /\ ~Crashed
    /\ loops[t].st = "waiting"
    /\ ticks[t]
    /\ now + d1 + d2 + d3 <= MaxTime
    /\ LET l == loops[t]
           o == LoopBody(l, now, now + d1, now + d1 + d2, now + d1 + d2 + d3)
       IN
       /\ o.clock = now + d1 + d2 + d3
       /\ loops' = [loops EXCEPT ![t] =
               IF o.st = "waiting"
               THEN [o.loop EXCEPT !.woke = o.clock]
               ELSE [NoLoop EXCEPT !.st = o.st]]
       /\ ticks' = [ticks EXCEPT ![t] = FALSE]
       /\ value' = o.value
       /\ is_running' = o.is_running
       /\ now' = o.clock
       /\ ev' = [kind |-> "tick", task |-> t, dir |-> direction, idle |-> FALSE,
                 raw |-> RawOffset(direction, l, now), elapsed |-> now - l.woke,
                 before |-> value,
                 reversal |-> (l.last_direction = l.run_direction
                               /\ direction # l.run_direction),
                 calcs |-> o.calcs, published |-> o.published, panic |-> o.panic,
                 sent |-> <<>>]
    \* platform.request_animation_frame()
    /\ rerender_msgs' = TRUE
    /\ UNCHANGED <<renderer, function_and_ctx, direction, task, redraw>>

\* ------------------------------------------------------ DesktopRenderer
\* user_event, EventMessage::RequestRerender
RequestRerender ==
    /\ ~Crashed
    /\ rerender_msgs
    /\ rerender_msgs' = FALSE
    /\ redraw' = TRUE
    /\ UNCHANGED <<renderer, function_and_ctx, is_running, direction, value, task, loops,
                   ticks, now>>
    /\ ev' = EnvEv

\* window_event, WindowEvent::Resized
Resized ==
    /\ ~Crashed
    /\ redraw' = TRUE
    /\ UNCHANGED <<renderer, function_and_ctx, is_running, direction, value, task, loops,
                   ticks, rerender_msgs, now>>
    /\ ev' = EnvEv

\* window_event, WindowEvent::RedrawRequested: send_if_modified stores the
\* scale factor and notifies when the closure returns true, which it does
\* when state.scale_factor == scale_factor; app.event_loop_tick() sends a
\* tick to every ticker
RedrawRequested ==
    /\ ~Crashed
    /\ redraw
    /\ redraw' = FALSE
    /\ renderer' = [renderer EXCEPT
                       !.notified = (renderer.state_scale_factor = scale_factor),
                       !.state_scale_factor = scale_factor]
    /\ ticks' = [t \in Tasks |-> Live(t)]
    /\ UNCHANGED <<function_and_ctx, is_running, direction, value, task, loops,
                   rerender_msgs, now>>
    /\ ev' = EnvEv

\* The monotonic clock advances.
AdvanceClock ==
    /\ now < MaxTime
    /\ now' = now + 1
    /\ UNCHANGED <<renderer, function_and_ctx, is_running, direction, value, task, loops,
                   ticks, rerender_msgs, redraw>>
    /\ ev' = EnvEv

Next ==
    \/ \E d \in Direction : Run(d)
    \/ \E t \in Tasks : TaskStart(t)
    \/ \E t \in Tasks, d1, d2, d3 \in 0..1 : LoopTick(t, d1, d2, d3)
    \/ RequestRerender
    \/ Resized
    \/ RedrawRequested
    \/ AdvanceClock

Spec == Init /\ [][Next]_vars

\* What the runtime does by itself: the executor polls a spawned or woken
\* future, the event loop handles a queued message and a requested redraw.
\* Window events (Resized), run() and the passing of time are up to the user.
Fairness ==
    /\ \A t \in Tasks : WF_vars(TaskStart(t))
    /\ \A t \in Tasks : WF_vars(\E d1, d2, d3 \in 0..1 : LoopTick(t, d1, d2, d3))
    /\ WF_vars(RequestRerender)
    /\ WF_vars(RedrawRequested)

SpecFair == Spec /\ Fairness

\* ------------------------------------------- SegmentCompositor on its own
\* The arguments the builder calls are given.
Values == {0, 60}
Durations == {0, 2}
Functions == {"linear", "constant"}
\* The indices calc is asked for: up to one past the longest timeline's end.
LongestDuration == CHOOSE d \in Durations : \A e \in Durations : e <= d
Indices == 0..((MaxSegments * LongestDuration) + 1)

\* SegmentCompositor::new; value holds what calc returns for the caller, at
\* first calc(0) as in use_animation.
InitTimeline ==
    /\ function_and_ctx \in
          {[sc |-> SegmentCompositorNew(s, e, d, f), ctx |-> [auto_start |-> FALSE]] :
              s \in Values, e \in Values, d \in Durations, f \in Functions}
    /\ is_running = FALSE
    /\ direction = "Forward"
    /\ value = LET res == calc(sc, InitialTime(direction, sc)) IN
               IF res = None THEN NaN ELSE res[1]
    /\ task = None
    /\ loops = [t \in Tasks |-> NoLoop]
    /\ ticks = [t \in Tasks |-> FALSE]
    /\ rerender_msgs = FALSE
    /\ redraw = FALSE
    /\ now = 0
    /\ renderer = RendererState(1, 1)
    /\ ev = LET res == calc(sc, InitialTime(direction, sc)) IN
            [NoEv EXCEPT !.kind = "new", !.calcs = {InitialTime(direction, sc)},
                         !.panic = IF res = None THEN "calc" ELSE "no"]

\* .add_segment(start, end, duration, function)
AddSegment(s, e, d, f) ==
    /\ Len(sc.segments) < MaxSegments
    /\ function_and_ctx' = [function_and_ctx EXCEPT !.sc = add_segment(sc, s, e, d, f)]
    /\ ev' = [NoEv EXCEPT !.kind = "add"]
    /\ UNCHANGED <<renderer, is_running, direction, value, task, loops, ticks,
                   rerender_msgs, redraw, now>>

\* .add_constant_segment(value, duration)
AddConstantSegment(v, d) ==
    /\ Len(sc.segments) < MaxSegments
    /\ function_and_ctx' = [function_and_ctx EXCEPT !.sc = add_constant_segment(sc, v, d)]
    /\ ev' = [NoEv EXCEPT !.kind = "add"]
    /\ UNCHANGED <<renderer, is_running, direction, value, task, loops, ticks,
                   rerender_msgs, redraw, now>>

\* .calc(index): the caller keeps the output, or the call panics
Calc(index) ==
    /\ index <= duration(sc) + 1
    /\ value' = IF calc(sc, index) = None THEN value ELSE calc(sc, index)[1]
    /\ ev' = LET res == calc(sc, index) IN
             [NoEv EXCEPT !.kind = "calc", !.raw = index, !.calcs = {index},
                          !.published = (res # None),
                          !.panic = IF res = None THEN "calc" ELSE "no"]
    /\ UNCHANGED <<renderer, function_and_ctx, is_running, direction, task, loops, ticks,
                   rerender_msgs, redraw, now>>

\* .value(index) of the use_animation.rs SegmentCompositor, built alike
Value(index) ==
    /\ index <= duration(sc) + 1
    /\ value' = IF value_at(sc, index) = None THEN value ELSE value_at(sc, index)[1]
    /\ ev' = LET res == value_at(sc, index) IN
             [NoEv EXCEPT !.kind = "value", !.raw = index, !.calcs = {index},
                          !.published = (res # None),
                          !.panic = IF res = None THEN "calc" ELSE "no"]
    /\ UNCHANGED <<renderer, function_and_ctx, is_running, direction, task, loops, ticks,
                   rerender_msgs, redraw, now>>

NextTimeline ==
    \/ \E s \in Values, e \in Values, d \in Durations : AddSegment(s, e, d, "linear")
    \/ \E v \in Values, d \in Durations : AddConstantSegment(v, d)
    \/ \E index \in Indices : Calc(index)
    \/ \E index \in Indices : Value(index)

SpecTimeline == InitTimeline /\ [][NextTimeline]_vars


\* ------------------------------------------- DesktopRenderer on its own
\* The scale factors of the monitors, the cursor positions, the file paths.
ScaleFactors == {1, 2}
Positions == {0, 1}
Paths == {"a.txt", "b.txt"}

\* PlatformEvent as handed to send_event
PlatformEvent(name, file_path, cursor) ==
    [name |-> name, file_path |-> file_path, cursor |-> cursor]

InitRenderer ==
    /\ function_and_ctx = [sc |-> SegmentCompositorNew(0, 60, 2, "linear"),
                           ctx |-> [auto_start |-> FALSE]]
    /\ is_running = function_and_ctx.ctx.auto_start
    /\ direction = "Forward"
    /\ value = calc(sc, InitialTime(direction, sc))[1]
    /\ task = None
    /\ loops = [t \in Tasks |-> NoLoop]
    /\ ticks = [t \in Tasks |-> FALSE]
    /\ rerender_msgs = FALSE
    /\ redraw = FALSE
    /\ now = 0
    /\ renderer \in {RendererState(w, s) : w \in ScaleFactors, s \in ScaleFactors}
    /\ ev = [NoEv EXCEPT !.calcs = {InitialTime(direction, sc)}]

\* The window comes to a monitor of another scale: window.scale_factor()
ScaleFactorChanged(s) ==
    /\ s # renderer.window
    /\ renderer' = [renderer EXCEPT !.window = s]
    /\ ev' = EnvEv
    /\ UNCHANGED <<function_and_ctx, is_running, direction, value, task, loops,
                   ticks, rerender_msgs, redraw, now>>

\* window_event, WindowEvent::DroppedFile
DroppedFile(file_path) ==
    /\ renderer' = [renderer EXCEPT !.dropped_file_path = Some(file_path),
                                    !.last_dropped = Some(file_path)]
    /\ ev' = [EnvEv EXCEPT !.kind = "dropped"]
    /\ UNCHANGED <<function_and_ctx, is_running, direction, value, task, loops,
                   ticks, rerender_msgs, redraw, now>>

\* CursorMoved reading dropped_file_path without take()
CursorMoved_KeepsPath(position) ==
    /\ renderer' = [renderer EXCEPT !.cursor_pos = position]
    /\ ev' = [EnvEv EXCEPT
                !.kind = "cursor",
                !.sent = <<PlatformEvent("MouseMove", None, position)>> \o
                         (IF renderer.dropped_file_path = None THEN <<>>
                          ELSE <<PlatformEvent("FileDrop",
                                               renderer.dropped_file_path,
                                               position)>>)]
    /\ UNCHANGED <<function_and_ctx, is_running, direction, value, task, loops,
                   ticks, rerender_msgs, redraw, now>>

\* window_event, WindowEvent::CursorMoved: MouseMove is sent, then FileDrop
\* with the path taken out of dropped_file_path, if there is one
CursorMoved(position) ==
    /\ renderer' = [renderer EXCEPT !.cursor_pos = position,
                                    !.dropped_file_path = None]
    /\ ev' = [EnvEv EXCEPT
                !.kind = "cursor",
                !.sent = <<PlatformEvent("MouseMove", None, position)>> \o
                         (IF renderer.dropped_file_path = None THEN <<>>
                          ELSE <<PlatformEvent("FileDrop",
                                               renderer.dropped_file_path,
                                               position)>>)]
    /\ UNCHANGED <<function_and_ctx, is_running, direction, value, task, loops,
                   ticks, rerender_msgs, redraw, now>>

NextRenderer ==
    \/ \E s \in ScaleFactors : ScaleFactorChanged(s)
    \/ \E file_path \in Paths : DroppedFile(file_path)
    \/ \E position \in Positions : CursorMoved(position)
    \/ Resized
    \/ RedrawRequested

SpecRenderer == InitRenderer /\ [][NextRenderer]_vars

\* ------------------------------------------------------------ the claims
RECURSIVE SumDurations(_, _)
SumDurations(segs, i) ==
    IF i > Len(segs) THEN 0 ELSE segs[i].duration + SumDurations(segs, i + 1)

\* The timeline's length, summed over its segments.
TotalDuration == SumDurations(sc.segments, 1)

\* calc at the two ends of the timeline
StartValue == calc(sc, 0)[1]
EndValue == calc(sc, TotalDuration)[1]

Abs(x) == IF x < 0 THEN -x ELSE x
Dist(a, b) == Abs(a[2] - b[2])

\* The furthest two samples lie apart whose indices are at most e ms apart.
MaxMotion(e) ==
    LET moves == {Dist(calc(sc, i)[1], calc(sc, j)[1]) :
                    <<i, j>> \in {p \in (0..TotalDuration) \X (0..TotalDuration) :
                                    Abs(p[1] - p[2]) <= e}}
    IN CHOOSE m \in moves : \A n \in moves : n <= m

\* C1: a scheduler has at most one live tick loop at every moment.
C1_AtMostOneLiveLoop == Cardinality(LiveLoops) <= 1

\* C2: run(direction) on a scheduler that is not running leaves the running
\* flag true, the direction recorded and a tick loop started whose anchor is
\* 0 for Forward and total_duration for Backward.
C2_RunMakesRunning ==
    /\ (ev.kind = "run" /\ ev.idle) =>
        /\ is_running
        /\ direction = ev.dir
        /\ Live(ev.task)
    /\ ev.kind = "start" =>
        /\ is_running
        /\ loops[ev.task].anchor = IF ev.dir = "Forward" THEN 0 ELSE TotalDuration

\* C3: a Backward tick whose offset is <= 0 (underflow included) publishes
\* calc(0) and leaves the scheduler not running.
C3_BackwardBoundaryPublishesStart ==
    (ev.kind = "tick" /\ ev.dir = "Backward" /\ ~ev.reversal /\ ev.raw <= 0) =>
        (ev.published /\ value = StartValue /\ ~is_running)

\* C4: a Forward tick whose offset is >= total_duration publishes
\* calc(total_duration) and leaves the scheduler not running.
C4_ForwardBoundaryPublishesEnd ==
    (ev.kind = "tick" /\ ev.dir = "Forward" /\ ev.raw >= TotalDuration) =>
        (ev.panic = "no" /\ ev.published /\ value = EndValue /\ ~is_running)

C4_Witness ==
    /\ ev.kind = "tick" /\ ev.dir = "Forward" /\ ev.raw > TotalDuration
    /\ ev.published /\ ev.before # EndValue

\* C5: the sample published at the first tick after run() reversed the
\* direction of a run differs from the value before it by no more than the
\* motion of the time that tick covers; it is no jump to the other anchor.
C5_ReversalIsContinuous ==
    (ev.kind = "tick" /\ ev.reversal /\ ev.dir = "Backward" /\ ev.published) =>
        Dist(value, ev.before) <= MaxMotion(ev.elapsed)

\* C6: every index the scheduler hands to calc lies in [0, total_duration],
\* and calc never fails for the scheduler.
C6_CalcIndexInRange ==
    /\ \A i \in ev.calcs : 0 <= i /\ i <= TotalDuration
    /\ ev.panic # "calc"

C6_Witness ==
    /\ ev.kind = "tick" /\ ev.calcs # {} /\ ev.published
    /\ ev.raw > TotalDuration

C8_ForwardRunEndsAtEnd ==
    (/\ ~function_and_ctx.ctx.auto_start
     /\ Spawned = {1}
     /\ direction = "Forward"
     /\ loops[1].st = "done") =>
        (~is_running /\ value = EndValue)

\* C9: a tick that reaches no boundary publishes calc(offset), offset being
\* anchor + elapsed (Forward) or anchor - elapsed (Backward).
C9_TickPublishesSample ==
    (ev.kind = "tick" /\ 0 < ev.raw /\ ev.raw < TotalDuration) =>
        (ev.published /\ value = calc(sc, ev.raw)[1])

\* C10: with auto_start set, constructing the scheduler starts a run: a tick
\* loop exists though run() was never called.
C10_AutoStartSpawnsLoop ==
    function_and_ctx.ctx.auto_start => Spawned # {}

\* C11: run() called while a tick loop is live spawns no new loop and leaves
\* the stored task, the loops, the value and the flag as they were; only
\* the requested direction may differ afterwards.
C11_RunWhileRunningSpawnsNothing ==
    (ev.kind = "run" /\ \E t \in LiveLoops : t # ev.task) =>
        (~ev.idle /\ ev.task = 0)

\* C12: a tick loop that run() has replaced as the stored task publishes no
\* further sample.
C12_ReplacedLoopIsSilent ==
    (ev.kind = "tick" /\ task # Some(ev.task)) => ~ev.published

\* The time before segment k, and the segments whose window
\* accumulated < index <= accumulated + duration holds the index, the first
\* segment's window holding 0 as well.
AccumulatedBefore(k) == SumDurations(SubSeq(sc.segments, 1, k - 1), 1)

InWindow(k, index) ==
    \/ /\ AccumulatedBefore(k) < index
       /\ index <= AccumulatedBefore(k) + sc.segments[k].duration
    \/ k = 1 /\ index = 0

RuleSegments(index) == {k \in 1..Len(sc.segments) : InWindow(k, index)}

\* C13: for an index in [0, total_duration] calc returns the easing of the
\* one segment whose window holds the index, at the time index - accumulated.
C13_CalcSelectsByWindow ==
    (ev.kind = "calc" /\ ev.raw <= TotalDuration) =>
        \E k \in RuleSegments(ev.raw) :
            /\ RuleSegments(ev.raw) = {k}
            /\ ev.panic = "no"
            /\ value = ease(sc.segments[k].start, sc.segments[k].end,
                            ev.raw - AccumulatedBefore(k),
                            sc.segments[k].duration, sc.segments[k].function)

C13_Witness ==
    /\ ev.kind = "calc" /\ Len(sc.segments) >= 2
    /\ ev.raw = AccumulatedBefore(2) /\ RuleSegments(ev.raw) = {1}
    /\ sc.segments[1].duration > 0 /\ sc.segments[2].duration > 0
    /\ sc.segments[1].function = "linear"
    /\ sc.segments[1].end # sc.segments[2].start

\* C14: after new and any add_segment and add_constant_segment calls,
\* duration() is the sum of the segments' durations.
C14_DurationIsSum == duration(sc) = TotalDuration

C14_Witness ==
    /\ ev.kind = "add" /\ Len(sc.segments) = MaxSegments
    /\ sc.segments[Len(sc.segments)].function = "constant"
    /\ \A k \in 1..Len(sc.segments) : sc.segments[k].duration > 0

C16_CalcPastEndPanics ==
    (ev.kind = "calc" /\ ev.raw > TotalDuration) =>
        (ev.panic = "calc" /\ ~ev.published)

C16_Witness ==
    ev.kind = "calc" /\ ev.raw > TotalDuration /\ Len(sc.segments) >= 2

\* C19: at every index in the window of a segment added with
\* add_constant_segment(v, d), calc returns v.
C19_ConstantSegmentHolds ==
    (ev.kind = "calc" /\ ev.raw <= TotalDuration) =>
        \A k \in RuleSegments(ev.raw) :
            (k > 1 /\ sc.segments[k].function = "constant") =>
                (ev.panic = "no" /\ value = F32(sc.segments[k].start))

C19_Witness ==
    /\ ev.kind = "calc"
    /\ \E k \in RuleSegments(ev.raw) :
          /\ k > 1 /\ sc.segments[k].function = "constant"
          /\ ev.raw - AccumulatedBefore(k) < sc.segments[k].duration
          /\ sc.segments[k - 1].end # sc.segments[k].start

\* C17: until run() has spawned anything, value() is calc at the anchor of the
\* initial direction; the initial direction is Forward, so it is calc(0).
C17_InitialValueIsAnchorSample ==
    (Spawned = {}) =>
        /\ value = StartValue
        /\ ~function_and_ctx.ctx.auto_start => direction = "Forward"

C17_Witness ==
    /\ Spawned = {} /\ ~function_and_ctx.ctx.auto_start
    /\ now > 0 /\ StartValue # EndValue

\* C18: value and is_running are written by tick-loop steps only: a step that
\* changes either of them is a tick; run() changes neither.
C18_OnlyTicksWrite ==
    [][(value' # value \/ is_running' # is_running) => ev'.kind = "tick"]_vars

C18_Witness == ev.kind = "run" /\ ev.idle /\ value # StartValue

\* The offset under the direction the run was started with, at a tick that
\* finds the direction reversed (the anchor is still the start's).
OldDirectionOffset ==
    IF ev.dir = "Backward" THEN 0 - ev.raw ELSE (2 * TotalDuration) - ev.raw

\* C20: the tick that finds the direction reversed inside the timeline
\* re-anchors and goes on: the loop stays alive, publishes this tick's
\* sample and has taken over the requested direction, so that the following
\* ticks do not re-anchor again.
C20_ReversalReanchorsOnce ==
    (/\ ev.kind = "tick" /\ ev.reversal
     /\ 0 < OldDirectionOffset /\ OldDirectionOffset < TotalDuration) =>
        /\ Live(ev.task)
        /\ ev.published
        /\ loops[ev.task].last_direction = direction

\* C21: a tick of a loop that a later run() has replaced as the stored task
\* leaves value and the running flag as they were.
C21_SupersededLoopWritesNothing ==
    (ev.kind = "tick" /\ task # Some(ev.task)) => value = ev.before

\* C22: a tick that reaches a boundary ends its loop, and a loop that has
\* ended stays ended: it takes no tick, and while no loop is live nothing but
\* run() acts on the scheduler, no value is published and no frame requested.
C22_BoundaryEndsLoop ==
    /\ []((ev.kind = "tick" /\ (ev.raw <= 0 \/ ev.raw >= TotalDuration)) =>
            (loops[ev.task].st = "done" /\ ~is_running))
    /\ [][/\ \A t \in Tasks : loops[t].st = "done" =>
                /\ loops'[t].st = "done"
                /\ ~ticks'[t]
                /\ ~(ev'.kind = "tick" /\ ev'.task = t)
          /\ (LiveLoops = {} /\ ev'.kind # "run") =>
                /\ value' = value
                /\ is_running' = is_running
                /\ rerender_msgs' => rerender_msgs]_vars

C22_Witness ==
    /\ LiveLoops = {} /\ \E t \in Tasks : loops[t].st = "done"
    /\ ev.kind = "env" /\ ~redraw /\ ~rerender_msgs
    /\ direction = "Forward" /\ value = EndValue /\ value # StartValue

\* C23: every tick a loop consumes is followed by a frame request, and a
\* frame request appears only in a step that consumed a tick.
C23_FrameRequestPerTick ==
    [][/\ ev'.kind = "tick" => rerender_msgs'
       /\ (rerender_msgs' /\ ~rerender_msgs) => ev'.kind = "tick"]_vars

C23_Witness == ev.kind = "tick" /\ rerender_msgs /\ Cardinality(Spawned) > 1

\* C26: whenever the running flag is true a tick loop is alive.
C26_FlagMeansLiveLoop == is_running => LiveLoops # {}

\* C27: the ticker of a loop that run() has spawned eventually holds a tick.
C27_SpawnedLoopGetsTick ==
    \A t \in Tasks : (loops[t].st = "spawned") ~> ticks[t]

\* C24: on a timeline with a segment of duration 0 calc panics at no index
\* in [0, total_duration], the calc(0) of the construction included.
C24_ZeroDurationNoPanic ==
    (/\ ev.kind \in {"new", "calc"} /\ ev.raw <= TotalDuration
     /\ \E k \in 1..Len(sc.segments) : sc.segments[k].duration = 0) =>
        ev.panic = "no"

C24_Witness ==
    /\ ev.kind = "calc" /\ ev.raw = TotalDuration /\ ev.published
    /\ \A k \in 1..Len(sc.segments) : sc.segments[k].duration = 0

\* C25: value(index) of the use_animation.rs SegmentCompositor returns an
\* output for every index in [0, total_duration], 0 included.
C25_ValueCoversTimeline ==
    (ev.kind = "value" /\ ev.raw <= TotalDuration) =>
        (ev.panic = "no" /\ ev.published)

\* C28: RedrawRequested stores the current scale factor in the platform
\* state and notifies the watchers exactly when it differs from the stored one.
C28_NotifyOnlyOnChange ==
    [][(redraw /\ ~redraw') =>
          /\ renderer'.state_scale_factor = scale_factor
          /\ renderer'.notified <=> (renderer.state_scale_factor # scale_factor)]_vars

\* The FileDrop events among those a step has sent.
FileDrops(e) == SelectSeq(e.sent, LAMBDA x : x.name = "FileDrop")

\* C29: FileDrop is sent only by a CursorMoved that finds a stored path, once,
\* with the path of the latest DroppedFile, and the stored path is cleared.
C29_FileDropOncePerDrop ==
    /\ [](FileDrops(ev) # <<>> =>
            /\ ev.kind = "cursor"
            /\ Len(FileDrops(ev)) = 1
            /\ FileDrops(ev)[1].file_path = renderer.last_dropped
            /\ renderer.dropped_file_path = None)
    /\ [][(FileDrops(ev') # <<>>) <=>
             (ev'.kind = "cursor" /\ renderer.dropped_file_path # None)]_vars

C29_Witness ==
    /\ ev.kind = "cursor" /\ FileDrops(ev) # <<>>
    /\ FileDrops(ev)[1].file_path = Some("b.txt")
    /\ FileDrops(ev)[1].cursor = 1

====
